---- MODULE Spec2Model ----
(***************************************************************************)
(* Model of the transcript search service (SearchAPI): the cached summary  *)
(* and hits operations over an LRU cache, the summary response builder,    *)
(* and the paged TSV export stream.                                        *)
(*                                                                         *)
(* JavaScript values are modelled as follows.                              *)
(*   - a plain object is the sequence of its <<key, value>> pairs in       *)
(*     insertion order (the order Object.keys and JSON.stringify use);     *)
(*   - an object with identity (a result handed to a caller and kept in    *)
(*     the cache) is a reference into the heap;                            *)
(*   - a number that results from a division is the exact rational         *)
(*     [num, den]; den = 0 stands for a division by zero (NaN, Infinity).  *)
(***************************************************************************)
EXTENDS Integers, Sequences, FiniteSets, TLC

VARIABLES
    cache,          \* this.cache: the LRU's entries, least recently used first
    heap,           \* the result objects allocated so far, by reference
    inflight,       \* the es.search requests of cached calls not yet settled
    roundTrips,     \* number of es.search requests issued by cached calls
    ev,             \* the last thing that happened at the service boundary
    aggResponse,    \* the raw aggregation response handed to _buildResponse
    built,          \* what _buildResponse returned for aggResponse
    pc,             \* position of the builder run: "input" or "done"
    rs              \* the ReadableSearch behind one getHitStreamAsTsv call

vars == <<cache, heap, inflight, roundTrips, ev, aggResponse, built, pc, rs>>

serviceVars == <<cache, heap, inflight, roundTrips, ev>>
builderVars == <<aggResponse, built, pc>>

(***************************************************************************)
(* Plain objects: sequences of <<key, value>> pairs in insertion order.    *)
(***************************************************************************)
ObjKeys(o) == [i \in 1..Len(o) |-> o[i][1]]

ObjHas(o, k) == \E i \in 1..Len(o) : o[i][1] = k

ObjGet(o, k) == o[CHOOSE i \in 1..Len(o) : o[i][1] = k][2]

\* o[k] = v: an existing key keeps its place, a new key goes last.
ObjSet(o, k, v) ==
    IF ObjHas(o, k)
    THEN [i \in 1..Len(o) |-> IF o[i][1] = k THEN <<k, v>> ELSE o[i]]
    ELSE Append(o, <<k, v>>)

\* Array.prototype.indexOf: the first 0-based index of v, or -1.
IndexOf(seq, v) ==
    IF \E i \in 1..Len(seq) : seq[i] = v
    THEN (CHOOSE i \in 1..Len(seq) :
            seq[i] = v /\ \A j \in 1..(i - 1) : seq[j] # v) - 1
    ELSE -1

\* Array.prototype.slice(from, to) with from >= 0 and to < 0 or to >= 0.
Slice(seq, from, to) ==
    LET end == IF to < 0 THEN Len(seq) + to
               ELSE IF to > Len(seq) THEN Len(seq) ELSE to
    IN  IF end <= from THEN <<>> ELSE SubSeq(seq, from + 1, end)

(***************************************************************************)
(* The summary response builder.                                           *)
(***************************************************************************)

\* in _parseAggregation: counts[bucket.key_as_string || bucket.key] = doc_count
BucketKey(bucket) ==
    IF "key_as_string" \in DOMAIN bucket /\ bucket.key_as_string # ""
    THEN bucket.key_as_string
    ELSE bucket.key

RECURSIVE ParseBuckets(_, _)
ParseBuckets(buckets, counts) ==
    IF buckets = <<>> THEN counts
    ELSE ParseBuckets(Tail(buckets),
                      ObjSet(counts, BucketKey(Head(buckets)),
                             Head(buckets).doc_count))

_parseAggregation(aggregation) == ParseBuckets(aggregation.buckets, <<>>)

\* set[key] || 0.0
CountOr0(o, key) == IF ObjHas(o, key) THEN ObjGet(o, key) ELSE 0

\* keys.filter((k, i) => keys.indexOf(k) === i)
Uniq(keys) ==
    LET first == {i \in 1..Len(keys) : IndexOf(keys, keys[i]) = i - 1}
        RECURSIVE Pick(_)
        Pick(i) == IF i > Len(keys) THEN <<>>
                   ELSE (IF i \in first THEN <<keys[i]>> ELSE <<>>) \o Pick(i + 1)
    IN  Pick(1)

PctNoZeroCheck(val, total) == [num |-> val * 100, den |-> total]

\* pct: total === 0 ? 0 : (val / total) * 100
Pct(val, total) ==
    IF total = 0 THEN [num |-> 0, den |-> 1]
    ELSE [num |-> val * 100, den |-> total]

_calculatePercentages(subset, set, combineKeys) ==
    LET keys == IF combineKeys THEN Uniq(ObjKeys(subset) \o ObjKeys(set))
                ELSE ObjKeys(subset)
    IN  [i \in 1..Len(keys) |->
            LET total == CountOr0(set, keys[i])
                val   == CountOr0(subset, keys[i])
            IN  [key |-> keys[i], count |-> val, total |-> total,
                 pct |-> Pct(val, total)]]

\* in _buildPersonMap: map[bucket.key] = bucket.person.hits.hits[0]._source
RECURSIVE PersonBuckets(_, _)
PersonBuckets(buckets, map) ==
    IF buckets = <<>> THEN map
    ELSE PersonBuckets(Tail(buckets),
                       ObjSet(map, Head(buckets).key,
                              Head(buckets).person.hits.hits[1]._source))

_buildPersonMap(aggregation) == PersonBuckets(aggregation.buckets, <<>>)

\* moment(key).valueOf() for the date_histogram labels the model uses, in
\* seconds since the epoch (the code's milliseconds, divided by 1000).
TimeLabels ==
    <<"2013-11-01T00:00:00.000Z", "2013-12-01T00:00:00.000Z",
      "2014-01-01T00:00:00.000Z", "2014-02-01T00:00:00.000Z",
      "2014-03-01T00:00:00.000Z", "2014-04-01T00:00:00.000Z">>

MomentValueOf(key) ==
    CASE key = "2013-11-01T00:00:00.000Z" -> 1383264000
      [] key = "2013-12-01T00:00:00.000Z" -> 1385856000
      [] key = "2014-01-01T00:00:00.000Z" -> 1388534400
      [] key = "2014-02-01T00:00:00.000Z" -> 1391212800
      [] key = "2014-03-01T00:00:00.000Z" -> 1393632000
      [] key = "2014-04-01T00:00:00.000Z" -> 1396310400

\* The three comparators handed to Array.prototype.sort in _buildResponse;
\* the sign of the result is what sort uses.
Compare(by, a, b) ==
    CASE by = "time"  -> MomentValueOf(a.key) - MomentValueOf(b.key)
      [] by = "count" -> b.count - a.count
      [] by = "pct"   -> b.pct.num * a.pct.den - a.pct.num * b.pct.den

\* Array.prototype.sort(comparator): a stable insertion sort, which is what
\* the engine runs on the short arrays of the model.
RECURSIVE InsertSorted(_, _, _)
InsertSorted(sorted, x, by) ==
    IF sorted = <<>> THEN <<x>>
    ELSE IF Compare(by, Head(sorted), x) <= 0
         THEN <<Head(sorted)>> \o InsertSorted(Tail(sorted), x, by)
         ELSE <<x>> \o sorted

RECURSIVE SortFrom(_, _, _)
SortFrom(seq, sorted, by) ==
    IF seq = <<>> THEN sorted
    ELSE SortFrom(Tail(seq), InsertSorted(sorted, Head(seq), by), by)

Sort(seq, by) == SortFrom(seq, <<>>, by)

\* Parties.isCurrent(key): membership in the list of current parties.
CurrentParties == {"A", "H", "FrP", "SV", "Sp", "KrF", "V", "MDG"}

isCurrent(key) == key \in CurrentParties

\* entries.filter(e => Parties.isCurrent(e.key))
RECURSIVE FilterCurrent(_)
FilterCurrent(entries) ==
    IF entries = <<>> THEN <<>>
    ELSE (IF isCurrent(Head(entries).key) THEN <<Head(entries)>> ELSE <<>>)
            \o FilterCurrent(Tail(entries))

TrimNone(timeline) == timeline

\* timeline.slice(1, -1)
Trim(timeline) == Slice(timeline, 1, -1)

TOP_PEOPLE == 20

_buildResponse(resp) ==
    LET personMap == _buildPersonMap(resp.aggregations.filteredPeople.people)
        people0   == _calculatePercentages(
                        _parseAggregation(resp.aggregations.filteredPeople.people),
                        _parseAggregation(resp.aggregations.people), FALSE)
        people    == [i \in 1..Len(people0) |->
                        [key |-> people0[i].key, count |-> people0[i].count,
                         total |-> people0[i].total, pct |-> people0[i].pct,
                         meta |-> ObjGet(personMap, people0[i].key)]]
        timeline0 == _calculatePercentages(
                        _parseAggregation(resp.aggregations.filteredTimeline.timeline),
                        _parseAggregation(resp.aggregations.timeline), TRUE)
        timeline  == Trim(Sort(timeline0, "time"))
        parties0  == _calculatePercentages(
                        _parseAggregation(resp.aggregations.filteredParties.parties),
                        _parseAggregation(resp.aggregations.parties), FALSE)
        parties   == FilterCurrent(parties0)
        byCount   == Sort(people, "count")
        byPct     == Sort(byCount, "pct")
    IN  [counts   |-> [total |-> resp.hits.total],
         timeline |-> timeline,
         parties  |-> parties,
         people   |-> [count |-> Slice(byCount, 0, TOP_PEOPLE),
                       pct   |-> Slice(byPct, 0, TOP_PEOPLE)]]

(***************************************************************************)
(* Aggregation responses the index can return.  A facet key draws one case *)
(* <<f, u>>: its doc_count in the query-filtered aggregation and in the    *)
(* unfiltered one, -1 for a key that side has no bucket for.  The filtered *)
(* documents are a subset of all documents, so f <= u where both exist.    *)
(***************************************************************************)
NumTime == 4

TimeKeys == SubSeq(TimeLabels, 1, NumTime)

Cases ==
    {c \in (-1 .. 2) \X {-1, 0, 2} : c[2] = -1 \/ c[1] <= c[2]}

PersonKeys == <<"Erna Solberg", "Jens Stoltenberg">>

PartyKeys == <<"H", "NKP">>

\* The buckets of one side (1: filtered, 2: unfiltered) of a date_histogram,
\* in the index's ascending key order.
RECURSIVE TimeBuckets(_, _, _)
TimeBuckets(pick, side, i) ==
    IF i > Len(pick) THEN <<>>
    ELSE (IF pick[i][side] = -1 THEN <<>>
          ELSE <<[key           |-> MomentValueOf(TimeKeys[i]),
                  key_as_string |-> TimeKeys[i],
                  doc_count     |-> pick[i][side]]>>)
            \o TimeBuckets(pick, side, i + 1)

\* The buckets of one side of a terms aggregation over keys.
RECURSIVE TermBuckets(_, _, _, _)
TermBuckets(keys, pick, side, i) ==
    IF i > Len(pick) THEN <<>>
    ELSE (IF pick[i][side] = -1 THEN <<>>
          ELSE <<[key |-> keys[i], doc_count |-> pick[i][side]]>>)
            \o TermBuckets(keys, pick, side, i + 1)

\* The filtered people buckets carry the top_hits sub-aggregation.
WithPerson(buckets) ==
    [i \in 1..Len(buckets) |->
        [key       |-> buckets[i].key,
         doc_count |-> buckets[i].doc_count,
         person    |-> [hits |-> [hits |->
            <<[_source |-> [external_id |-> buckets[i].key, party |-> "H"]]>>]]]]

Response(time, people, parties, total) ==
    [hits |-> [total |-> total],
     aggregations |->
       [timeline         |-> [buckets |-> TimeBuckets(time, 2, 1)],
        filteredTimeline |-> [timeline |-> [buckets |-> TimeBuckets(time, 1, 1)]],
        people           |-> [buckets |-> TermBuckets(PersonKeys, people, 2, 1)],
        filteredPeople   |-> [people |-> [buckets |->
                                WithPerson(TermBuckets(PersonKeys, people, 1, 1))]],
        parties          |-> [buckets |-> TermBuckets(PartyKeys, parties, 2, 1)],
        filteredParties  |-> [parties |-> [buckets |->
                                TermBuckets(PartyKeys, parties, 1, 1)]]]]

DefaultTime == [i \in 1..NumTime |-> <<1, 2>>]
DefaultTerms == <<<<1, 2>>, <<2, 2>>>>

\* Either the timeline varies, or the two terms facets do: _buildResponse
\* computes the three facets independently of each other.
IsResponse(resp) ==
    \/ \E t \in [1..NumTime -> Cases] :
          resp = Response(t, DefaultTerms, DefaultTerms, 3)
    \/ \E people \in [1..2 -> Cases], parties \in [1..2 -> Cases] :
          resp = Response(DefaultTime, people, parties, 3)

EmptySummary ==
    [counts |-> [total |-> 0], timeline |-> <<>>, parties |-> <<>>,
     people |-> [count |-> <<>>, pct |-> <<>>]]

(***************************************************************************)
(* The cached operations: summary, hits, cached, _cacheResponse.           *)
(***************************************************************************)
ALLOWED_INTERVALS == <<"month", "12w", "24w", "year">>

\* JavaScript truthiness of a string value.
Truthy(v) == v # ""

_intervalFromUnchecked(opts) ==
    [threw |-> FALSE,
     value |-> IF ObjHas(opts, "interval") /\ Truthy(ObjGet(opts, "interval"))
               THEN ObjGet(opts, "interval") ELSE "month"]

\* _intervalFrom(opts): the interval returned, or threw for the Error.
_intervalFrom(opts) ==
    LET interval == IF ObjHas(opts, "interval") /\ Truthy(ObjGet(opts, "interval"))
                    THEN ObjGet(opts, "interval") ELSE "month"
    IN  [threw |-> IndexOf(ALLOWED_INTERVALS, interval) = -1, value |-> interval]

\* JSON.stringify of an object whose values are strings: the properties in
\* insertion order.
RECURSIVE StringifyPairs(_)
StringifyPairs(o) ==
    IF o = <<>> THEN ""
    ELSE "\"" \o o[1][1] \o "\":\"" \o o[1][2] \o "\""
            \o (IF Len(o) > 1 THEN "," ELSE "") \o StringifyPairs(Tail(o))

JSONstringify(o) == "{" \o StringifyPairs(o) \o "}"

CacheKeyNoName(name, data) == JSONstringify(data)

\* let cacheKey = name + ':' + JSON.stringify(data)
CacheKey(name, data) == name \o ":" \o JSONstringify(data)

\* The LRU cache: entries [key, value], least recently used first.  The
\* code's capacity (max: 500) is scaled down to CacheMax.
CacheMax == 1

CacheHas(c, key) == \E i \in 1..Len(c) : c[i].key = key

\* The value stored under key, 0 (undefined) when there is none.
CachePeek(c, key) ==
    IF CacheHas(c, key)
    THEN c[CHOOSE i \in 1..Len(c) : c[i].key = key].value
    ELSE 0

CacheWithout(c, key) ==
    LET RECURSIVE Drop(_)
        Drop(i) == IF i > Len(c) THEN <<>>
                   ELSE (IF c[i].key = key THEN <<>> ELSE <<c[i]>>) \o Drop(i + 1)
    IN  Drop(1)

\* cache.get(key): a hit makes the entry the most recently used.
LRUget(c, key) ==
    IF CacheHas(c, key)
    THEN Append(CacheWithout(c, key), [key |-> key, value |-> CachePeek(c, key)])
    ELSE c

\* cache.set(key, value): the entry becomes the most recently used, and the
\* least recently used one is dropped when the capacity is exceeded.
LRUset(c, key, value) ==
    LET put == Append(CacheWithout(c, key), [key |-> key, value |-> value])
    IN  IF Len(put) > CacheMax THEN Tail(put) ELSE put

_cacheResponseNoStore(c, key, value) == c

_cacheResponseKeepFirst(c, key, value) ==
    IF CacheHas(c, key) THEN c ELSE LRUset(c, key, value)

\* _cacheResponse(key, value): this.cache.set(key, value)
_cacheResponse(c, key, value) == LRUset(c, key, value)

ThenCacheAlways(c, key, fulfilled, value) == _cacheResponse(c, key, value)

\* fetchFunc().then(this._cacheResponse.bind(this, cacheKey)): the handler
\* runs when the fetch is fulfilled, and not when it is rejected.
ThenCache(c, key, fulfilled, value) ==
    IF fulfilled THEN _cacheResponse(c, key, value) ELSE c

\* Object.assign(target, source)
RECURSIVE ObjAssign(_, _)
ObjAssign(target, source) ==
    IF source = <<>> THEN target
    ELSE ObjAssign(ObjSet(target, Head(source)[1], Head(source)[2]), Tail(source))

\* _buildHit(hit)
_buildHit(hit) ==
    ObjAssign(<<<<"id", hit._id>>, <<"score", hit._score>>,
                <<"highlight", IF "highlight" \in DOMAIN hit
                               THEN hit.highlight.text[1] ELSE "">>>>,
              hit._source)

\* The result of hits(opts) built from the index's response.
HitsResult(opts, response) ==
    [query  |-> ObjGet(opts, "query"),
     hits   |-> [i \in 1..Len(response.hits.hits) |->
                    _buildHit(response.hits.hits[i])],
     counts |-> [total |-> response.hits.total]]

(***************************************************************************)
(* Callers' options and the index's responses.                             *)
(***************************************************************************)
MaxCalls == 2

Queries == {"a", "b"}

IntervalValues == {"month", "week", ""}

OptionsSet ==
    {<<<<"query", q>>>> : q \in Queries}
    \cup {<<<<"query", q>>, <<"interval", i>>>> :
            q \in Queries, i \in IntervalValues}
    \cup {<<<<"interval", i>>, <<"query", q>>>> :
            q \in Queries, i \in IntervalValues}

\* What es.search can answer an aggregations query with, at different times.
AggResponses ==
    {Response(DefaultTime, DefaultTerms, DefaultTerms, total) : total \in {3, 5}}

RawHit(n, marked) ==
    IF marked
    THEN [_id |-> n, _score |-> 2,
          highlight |-> [text |-> <<"<mark>skatt</mark>">>],
          _source |-> <<<<"name", "Erna Solberg">>, <<"text", "skatt">>>>]
    ELSE [_id |-> n, _score |-> 1,
          _source |-> <<<<"name", "Jens Stoltenberg">>, <<"text", "avgift">>>>]

\* What es.search can answer a hits query with, at different times.
HitsResponses ==
    {[hits |-> [total |-> 3, hits |-> <<RawHit(1, TRUE), RawHit(2, FALSE)>>]],
     [hits |-> [total |-> 5, hits |-> <<RawHit(3, FALSE)>>]]}

Event(type, n, op, given, opts, key, ref, id) ==
    [type |-> type, n |-> n, op |-> op, given |-> given, opts |-> opts,
     key |-> key, ref |-> ref, id |-> id]

NoEvent == Event("none", 0, "", <<>>, <<>>, "", 0, 0)

InitService ==
    /\ cache = <<>>
    /\ heap = <<>>
    /\ inflight = {}
    /\ roundTrips = 0
    /\ ev = NoEvent

\* cached(name, data, fetchFunc), entered from summary or hits with the
\* caller's options as given and as normalized (data).
cached(name, given, data) ==
    LET cacheKey == CacheKey(name, data)
        hit      == CachePeek(cache, cacheKey)
    IN  IF hit # 0
        THEN /\ cache' = LRUget(cache, cacheKey)
             /\ ev' = Event("hit", ev.n + 1, name, given, data, cacheKey, hit, 0)
             /\ UNCHANGED <<heap, inflight, roundTrips>>
        ELSE /\ roundTrips' = roundTrips + 1
             /\ inflight' = inflight \cup
                    {[id |-> roundTrips + 1, op |-> name, opts |-> data,
                      key |-> cacheKey]}
             /\ ev' = Event("miss", ev.n + 1, name, given, data, cacheKey, 0,
                            roundTrips + 1)
             /\ UNCHANGED <<cache, heap>>

\* The entry of summary(opts) and hits(opts):
\* opts.interval = this._intervalFrom(opts); return this.cached(name, opts, ...)
Enter(name, given) ==
    LET interval == _intervalFrom(given)
    IN  IF interval.threw
        THEN /\ ev' = Event("reject", ev.n + 1, name, given, given, "", 0, 0)
             /\ UNCHANGED <<cache, heap, inflight, roundTrips>>
        ELSE cached(name, given, ObjSet(given, "interval", interval.value))

summary(given) ==
    /\ ev.n < MaxCalls
    /\ Enter("summary", given)
    /\ UNCHANGED <<builderVars, rs>>

hits(given) ==
    /\ ev.n < MaxCalls
    /\ Enter("hits", given)
    /\ UNCHANGED <<builderVars, rs>>

\* es.search resolves for the request c with response: the fetch function's
\* then-handlers build the result, _cacheResponse stores it, and the caller
\* is handed the same object.
FetchResolves(c, response) ==
    LET value == IF c.op = "summary" THEN _buildResponse(response)
                 ELSE HitsResult(c.opts, response)
        ref   == Len(heap) + 1
    IN  /\ heap' = Append(heap, [val |-> value, op |-> c.op, opts |-> c.opts,
                                 key |-> c.key, fetch |-> c.id])
        /\ cache' = ThenCache(cache, c.key, TRUE, ref)
        /\ inflight' = inflight \ {c}
        /\ ev' = Event("resolve", ev.n, c.op, <<>>, c.opts, c.key, ref, c.id)
        /\ UNCHANGED <<roundTrips, builderVars, rs>>

\* es.search rejects for the request c: the error goes to the caller.
FetchRejects(c) ==
    /\ cache' = ThenCache(cache, c.key, FALSE, 0)
    /\ inflight' = inflight \ {c}
    /\ ev' = Event("fail", ev.n, c.op, <<>>, c.opts, c.key, 0, c.id)
    /\ UNCHANGED <<heap, roundTrips, builderVars, rs>>

\* A caller assigns to a property of a result object it was handed:
\* result.counts.total = 0.  Only the objects the cache still refers to are
\* followed: what happens to the others no operation can observe.
CallerMutates(ref) ==
    /\ \E i \in 1..Len(cache) : cache[i].value = ref
    /\ heap[ref].val.counts.total # 0
    /\ heap' = [heap EXCEPT ![ref].val.counts.total = 0]
    /\ UNCHANGED <<cache, inflight, roundTrips, ev, builderVars, rs>>

Next ==
    \/ \E given \in OptionsSet : summary(given)
    \/ \E given \in OptionsSet : hits(given)
    \/ \E c \in inflight :
         \E response \in (IF c.op = "summary" THEN AggResponses ELSE HitsResponses) :
            FetchResolves(c, response)
    \/ \E c \in inflight : FetchRejects(c)
    \/ \E ref \in 1..Len(heap) : CallerMutates(ref)

Init ==
    /\ InitService
    /\ aggResponse = Response(DefaultTime, DefaultTerms, DefaultTerms, 3)
    /\ built = EmptySummary
    /\ pc = "input"
    /\ rs = [state |-> "idle"]

Spec == Init /\ [][Next]_vars

(***************************************************************************)
(* SpecSummary: _buildResponse applied to an aggregation response.         *)
(***************************************************************************)
ExportIdle == rs = [state |-> "idle"]

InitSummary ==
    /\ IsResponse(aggResponse)
    /\ built = EmptySummary
    /\ pc = "input"
    /\ InitService
    /\ ExportIdle

Build ==
    /\ pc = "input"
    /\ built' = _buildResponse(aggResponse)
    /\ pc' = "done"
    /\ UNCHANGED <<aggResponse, serviceVars, rs>>

NextSummary == Build

SpecSummary == InitSummary /\ [][NextSummary]_vars

(***************************************************************************)
(* The TSV export: getHitStreamAsTsv(opts).                                *)
(***************************************************************************)
TSV_HEADERS ==
    <<"transcript", "order", "session", "time", "presidents", "title",
      "name", "party", "text">>

DEFAULT_SIZE == 10

MaxDocs == 25

Digits == <<"0", "1", "2", "3", "4", "5", "6", "7", "8", "9">>

\* String(n) for a non-negative integer.
RECURSIVE NumStr(_)
NumStr(n) ==
    IF n < 10 THEN Digits[n + 1]
    ELSE NumStr(n \div 10) \o Digits[(n % 10) + 1]

\* Array.prototype.join(sep) on strings.
RECURSIVE Join(_, _)
Join(seq, sep) ==
    IF seq = <<>> THEN ""
    ELSE IF Len(seq) = 1 THEN seq[1]
    ELSE seq[1] \o sep \o Join(Tail(seq), sep)

\* +(opts[field] || dflt) for a numeric option: 0 and absent are falsy.
NumberOr(opts, field, dflt) ==
    IF ObjHas(opts, field) /\ ObjGet(opts, field) # 0
    THEN ObjGet(opts, field) ELSE dflt

_buildHitsQueryNoStart(opts) ==
    [query |-> ObjGet(opts, "query"),
     size  |-> NumberOr(opts, "size", DEFAULT_SIZE),
     from  |-> 0]

\* _buildHitsQuery(opts): the part of the request body that selects the page.
_buildHitsQuery(opts) ==
    [query |-> ObjGet(opts, "query"),
     size  |-> NumberOr(opts, "size", DEFAULT_SIZE),
     from  |-> NumberOr(opts, "start", 0)]

\* The i-th document matching the query, as the index returns it.
Doc(i) ==
    [_id |-> i,
     _source |-> <<<<"transcript", "s140107">>, <<"order", i>>,
                   <<"session", "2013-2014">>, <<"time", "2014-01-07">>,
                   <<"presidents", <<"Olemic Thommessen", "Marit Nybakk">>>>,
                   <<"title", "Representant">>, <<"name", "Erna Solberg">>,
                   <<"party", "H">>, <<"text", "skatt">>>>]

\* es.search(request) over an index holding n matching documents in a
\* stable order: the page [from, from + size) and the total.
SearchHits(n, body) ==
    LET last == IF body.from + body.size > n THEN n ELSE body.from + body.size
    IN  [hits |-> [total |-> n,
                   hits  |-> [i \in 1..(IF last > body.from
                                        THEN last - body.from ELSE 0) |->
                                Doc(body.from + i)]]]

\* The csv.transform handler: presidents joined, then the TSV columns.
Transform(record) ==
    LET source == ObjSet(record._source, "presidents",
                         Join(ObjGet(record._source, "presidents"), ","))
    IN  [k \in 1..Len(TSV_HEADERS) |-> ObjGet(source, TSV_HEADERS[k])]

\* csv.stringify({delimiter: "\t"}) of one row.
RowLine(row) ==
    Join([k \in 1..Len(row) |->
            IF k = 2 THEN NumStr(row[k]) ELSE row[k]], "\t")

HeaderLine == Join(TSV_HEADERS, "\t")

\* A record pushed by the ReadableSearch goes through the transform and the
\* stringifier, which writes the header before the first row.
Emit(out, record) ==
    (IF out = <<>> THEN <<HeaderLine>> ELSE <<>>)
        \o out \o <<RowLine(Transform(record))>>

\* The stringifier's flush at the end of the stream: the header alone when no
\* row was written.
Flush(out) == IF out = <<>> THEN <<HeaderLine>> ELSE out

ExportOptionsSet ==
    {<<<<"query", "a">>>> \o size \o start :
        size  \in {<<>>, <<<<"size", 0>>>>, <<<<"size", 7>>>>},
        start \in {<<>>, <<<<"start", 5>>>>}}

InitExport ==
    /\ \E n \in 0..MaxDocs, opts \in ExportOptionsSet :
          rs = [state |-> "reading", n |-> n, opts |-> opts, from |-> 0,
                total |-> -1, hits |-> <<>>, current |-> 0, next |-> TRUE,
                fetches |-> 0, request |-> _buildHitsQuery(opts), out |-> <<>>]
    /\ InitService
    /\ aggResponse = Response(DefaultTime, DefaultTerms, DefaultTerms, 3)
    /\ built = EmptySummary
    /\ pc = "input"

\* ReadableSearch._read with a row left in the page: push it.
ReadRow ==
    /\ rs.state = "reading"
    /\ rs.current + 1 < Len(rs.hits)
    /\ rs' = [rs EXCEPT !.current = rs.current + 1,
                        !.out = Emit(rs.out, rs.hits[rs.current + 2])]
    /\ UNCHANGED <<serviceVars, builderVars>>

\* ReadableSearch._read at the end of the page with more to come: the
\* callback of getHitStreamAsTsv issues
\* es.search(this._buildHitsQuery(Object.assign({}, opts, {start: start}))).
ReadPage ==
    /\ rs.state = "reading"
    /\ rs.current + 1 >= Len(rs.hits)
    /\ rs.next
    /\ rs' = [rs EXCEPT !.state = "fetching",
                        !.current = rs.current + 1,
                        !.fetches = rs.fetches + 1,
                        !.request = _buildHitsQuery(
                            ObjAssign(ObjAssign(<<>>, rs.opts),
                                      <<<<"start", rs.from>>>>))]
    /\ UNCHANGED <<serviceVars, builderVars>>

\* ReadableSearch._read at the end of the last page: push(null).
ReadEnd ==
    /\ rs.state = "reading"
    /\ rs.current + 1 >= Len(rs.hits)
    /\ ~rs.next
    /\ rs' = [rs EXCEPT !.state = "ended", !.current = rs.current + 1,
                        !.out = Flush(rs.out)]
    /\ UNCHANGED <<serviceVars, builderVars>>

\* The page requested arrives: the stream ends on an empty page, and else
\* pushes the page's first row; no further page is asked for once a page is
\* short or the offset has reached the total.
PageArrives ==
    /\ rs.state = "fetching"
    /\ LET response == SearchHits(rs.n, rs.request)
           page     == response.hits.hits
           from     == rs.from + Len(page)
           next     == rs.next /\ from < response.hits.total
                               /\ Len(page) >= rs.request.size
       IN  rs' = [rs EXCEPT !.total = response.hits.total,
                            !.hits = page,
                            !.current = 0,
                            !.from = from,
                            !.next = next,
                            !.state = IF page = <<>> THEN "ended" ELSE "reading",
                            !.out = IF page = <<>> THEN Flush(rs.out)
                                    ELSE Emit(rs.out, page[1])]
    /\ UNCHANGED <<serviceVars, builderVars>>

NextExport == ReadRow \/ ReadPage \/ ReadEnd \/ PageArrives

SpecExport == InitExport /\ [][NextExport]_vars

(***************************************************************************)
(* Properties of the cached operations (checked under Spec).               *)
(***************************************************************************)
\* A step in which summary or hits was entered.
CallStep == ev'.n = ev.n + 1

\* A step in which a fetch was fulfilled, and one in which it was rejected.
ResolveStep == Len(heap') = Len(heap) + 1
FailStep == inflight' # inflight /\ inflight' \subseteq inflight /\ heap' = heap

\* Two options objects with the same fields and the same values.
SameOptions(a, b) == {a[i] : i \in 1..Len(a)} = {b[i] : i \in 1..Len(b)}

\* Whether the interval the caller gave is a property of the options, and
\* whether it is one of the allowed ones.
HasInterval(given) == ObjHas(given, "interval")
AllowedInterval(given) ==
    ObjGet(given, "interval") \in {"month", "12w", "24w", "year"}

\* C1: a summary call entered right after a summary call with the same
\* options was fulfilled is a cache hit: it returns the very object the first
\* call returned, issues no index search and changes no result; after these
\* two calls alone the index has been searched exactly once.
C1_RepeatedSummaryIsHit ==
    [][(/\ CallStep
        /\ ev.type = "resolve" /\ ev.op = "summary"
        /\ ev'.op = "summary" /\ ev'.type # "reject"
        /\ ev'.opts = ev.opts)
       => (/\ ev'.type = "hit"
           /\ ev'.ref = ev.ref
           /\ roundTrips' = roundTrips
           /\ inflight' = inflight
           /\ heap' = heap
           /\ (ev.n = 1 => roundTrips' = 1))]_vars

C1_Witness ==
    /\ ev.type = "hit" /\ ev.op = "summary" /\ ev.n = 2
    /\ roundTrips = 1 /\ inflight = {}
    /\ heap[ev.ref].opts = ev.opts

\* C2: when the fetch of a cached call is rejected the caller gets the error
\* and the cache and the stored results are as they were; a call with the same
\* key entered next, with no entry under that key, searches the index again.
C2_FailedFetchNotCached ==
    [][/\ FailStep
          => (/\ ev'.type = "fail"
              /\ \E c \in inflight \ inflight' : c.id = ev'.id /\ c.key = ev'.key
              /\ cache' = cache
              /\ roundTrips' = roundTrips)
       /\ (/\ CallStep /\ ev.type = "fail" /\ ev'.type # "reject"
           /\ ev'.key = ev.key /\ ~CacheHas(cache, ev.key))
          => (/\ ev'.type = "miss"
              /\ roundTrips' = roundTrips + 1
              /\ cache' = cache)]_vars

\* The only fetch so far was rejected: its caller has the error and nothing is
\* stored under its key.
C2_Witness ==
    /\ ev.type = "fail" /\ ev.id = 1
    /\ roundTrips = 1 /\ inflight = {}
    /\ ~CacheHas(cache, ev.key)

\* C3 as stated: every call whose options hold an interval that is not one of
\* the allowed ones is rejected with nothing searched, read or stored, and a
\* call without an interval proceeds with month.
C3_AsStated ==
    [][CallStep =>
        /\ (HasInterval(ev'.given) /\ ~AllowedInterval(ev'.given))
              => (/\ ev'.type = "reject"
                  /\ UNCHANGED <<cache, heap, inflight, roundTrips>>)
        /\ ~HasInterval(ev'.given)
              => (/\ ev'.type \in {"hit", "miss"}
                  /\ ObjGet(ev'.opts, "interval") = "month")]_vars

\* C3, amended: a call whose interval is a non-empty value outside the allowed
\* ones is rejected with nothing searched, read or stored; a call whose
\* interval is absent or empty proceeds with month.
C3_TruthyIntervalValidated ==
    [][CallStep =>
        /\ (/\ HasInterval(ev'.given)
            /\ Truthy(ObjGet(ev'.given, "interval"))
            /\ ~AllowedInterval(ev'.given))
              => (/\ ev'.type = "reject"
                  /\ UNCHANGED <<cache, heap, inflight, roundTrips>>)
        /\ (~HasInterval(ev'.given) \/ ~Truthy(ObjGet(ev'.given, "interval")))
              => (/\ ev'.type \in {"hit", "miss"}
                  /\ ObjGet(ev'.opts, "interval") = "month")]_vars

C3_Witness ==
    /\ ev.type = "reject" /\ ev.n = 2
    /\ ObjGet(ev.given, "interval") = "week"
    /\ roundTrips = 1 /\ Len(cache) = 1

\* C4: a call whose options have the same fields and values as those of an
\* entry in the cache, in whatever order, is a hit and fetches nothing.
C4_FieldOrderIrrelevant ==
    [][(/\ CallStep /\ ev'.type # "reject"
        /\ \E i \in 1..Len(cache) :
              /\ heap[cache[i].value].op = ev'.op
              /\ SameOptions(heap[cache[i].value].opts, ev'.opts))
       => (ev'.type = "hit" /\ roundTrips' = roundTrips)]_vars

\* C5: a cache hit returns a result that was fetched for the same operation
\* and for options with the same fields and values.
C5_HitIsForSameCall ==
    ev.type = "hit" =>
        /\ ev.ref \in 1..Len(heap)
        /\ heap[ev.ref].op = ev.op
        /\ SameOptions(heap[ev.ref].opts, ev.opts)

C5_Witness ==
    /\ ev.type = "hit" /\ ev.op = "hits"
    /\ ObjGet(ev.opts, "query") = "b"
    /\ heap[ev.ref].val.query = "b"

\* C6: a call that misses while a fetch for the same key is in flight issues
\* its own index search; each fulfilled fetch hands its caller its own new
\* result, leaves the other results alone, and leaves that result in the
\* cache under the key, whatever was stored there before.
C6_ConcurrentMissesNotDeduplicated ==
    [][/\ (/\ CallStep /\ ev'.type # "reject"
           /\ \E c \in inflight : c.key = ev'.key
           /\ ~CacheHas(cache, ev'.key))
          => (/\ ev'.type = "miss"
              /\ roundTrips' = roundTrips + 1
              /\ inflight \subseteq inflight'
              /\ \E d \in inflight' \ inflight :
                    d.key = ev'.key /\ d.id = roundTrips')
       /\ ResolveStep
          => (/\ ev'.type = "resolve"
              /\ ev'.ref = Len(heap')
              /\ heap'[ev'.ref].fetch = ev'.id
              /\ \E c \in inflight \ inflight' : c.id = ev'.id /\ c.key = ev'.key
              /\ \A r \in 1..Len(heap) : heap'[r] = heap[r]
              /\ CachePeek(cache', ev'.key) = ev'.ref)]_vars

\* Two fetches for one key overlapped (the later one was fulfilled first)
\* with different results, and the cache holds the one fulfilled last.
C6_Witness ==
    /\ ev.type = "resolve"
    /\ roundTrips = 2
    /\ \E r \in 1..Len(heap) :
          /\ r # ev.ref
          /\ heap[r].key = ev.key
          /\ heap[r].fetch > ev.id
          /\ heap[r].val # heap[ev.ref].val
    /\ CachePeek(cache, ev.key) = ev.ref

\* C8: while an entry stays in the cache, the value a hit on it returns does
\* not change.
C8_EntriesImmutable ==
    [][\A i \in 1..Len(cache) :
          (\E j \in 1..Len(cache') : cache'[j] = cache[i])
          => heap'[cache[i].value].val = heap[cache[i].value].val]_vars

(***************************************************************************)
(* Properties of the summary builder (checked under SpecSummary).          *)
(***************************************************************************)
\* The labels that have a bucket in the filtered or the unfiltered timeline,
\* in chronological order: [t0, ..., tn].
Span(resp) ==
    LET labels == {b.key_as_string :
                     b \in {resp.aggregations.timeline.buckets[i] :
                              i \in 1..Len(resp.aggregations.timeline.buckets)}
                        \cup {resp.aggregations.filteredTimeline.timeline.buckets[i] :
                              i \in 1..Len(resp.aggregations.filteredTimeline.timeline.buckets)}}
        RECURSIVE From(_)
        From(i) == IF i > Len(TimeLabels) THEN <<>>
                   ELSE (IF TimeLabels[i] \in labels THEN <<TimeLabels[i]>> ELSE <<>>)
                            \o From(i + 1)
    IN  From(1)

TimelineKeys == [i \in 1..Len(built.timeline) |-> built.timeline[i].key]

\* The timeline is [t1, ..., t_{n-1}] of the span [t0, ..., tn], in order.
TimelineIsInterior ==
    LET span == Span(aggResponse)
    IN  IF Len(span) >= 2
        THEN /\ TimelineKeys = SubSeq(span, 2, Len(span) - 1)
             /\ Len(built.timeline) = (Len(span) - 1) - 1
        ELSE TimelineKeys = <<>>

\* C9 as stated: the timeline is [t1, ..., t_{n-1}], of size n-1, and it is
\* empty when n <= 2.
C9_AsStated ==
    pc = "done" =>
        /\ TimelineIsInterior
        /\ (Len(Span(aggResponse)) - 1 <= 2 => built.timeline = <<>>)

\* C9, amended: the timeline is [t1, ..., t_{n-1}], of size n-1, which is
\* empty when n <= 1 (and when there is no bucket at all); for n = 2 it is
\* [t1].
C9_TimelineTrimmed ==
    pc = "done" =>
        /\ TimelineIsInterior
        /\ (Len(Span(aggResponse)) - 1 <= 1 <=> built.timeline = <<>>)

C9_Witness ==
    /\ pc = "done"
    /\ Len(Span(aggResponse)) = 4
    /\ Len(aggResponse.aggregations.filteredTimeline.timeline.buckets) = 2
    /\ TimelineKeys = <<TimeLabels[2], TimeLabels[3]>>

EntryPctOk(e) ==
    /\ e.pct.den > 0
    /\ 0 <= e.pct.num
    /\ e.pct.num <= 100 * e.pct.den
    /\ (e.total = 0 => e.pct.num = 0)
    /\ (e.total # 0 => e.pct.num * e.total = e.count * 100 * e.pct.den)

AllPctOk(entries) == \A i \in 1..Len(entries) : EntryPctOk(entries[i])

\* C10: every percentage entry of the result has a pct in [0, 100] equal to
\* count / total * 100, and pct = 0, with no division by zero, when its total
\* is 0.
C10_PctInRange ==
    pc = "done" =>
        /\ AllPctOk(built.timeline)
        /\ AllPctOk(built.parties)
        /\ AllPctOk(built.people.count)
        /\ AllPctOk(built.people.pct)

\* A timeline entry for a label the unfiltered side has no bucket for, next
\* to one with half of the documents.
C10_Witness ==
    /\ pc = "done"
    /\ \E i, j \in 1..Len(built.timeline) :
          /\ built.timeline[i].total = 0
          /\ built.timeline[i].count = 2
          /\ built.timeline[i].pct.num = 0
          /\ built.timeline[j].total = 2
          /\ built.timeline[j].count = 1
          /\ built.timeline[j].pct = [num |-> 100, den |-> 2]

(***************************************************************************)
(* Properties of the export (checked under SpecExport).                    *)
(***************************************************************************)
PageSize == NumberOr(rs.opts, "size", DEFAULT_SIZE)

\* The lines of a complete export of the n matching documents.
ExpectedLines(n) ==
    <<HeaderLine>> \o [i \in 1..n |-> RowLine(Transform(Doc(i)))]

\* C7: what has been written is at any time the beginning of the header
\* followed by the documents' rows in the index's order; a finished export
\* wrote the header and one row per matching document and fetched as many
\* pages as hold the documents (one when there is none).
C7_ExportComplete ==
    /\ rs.state \in {"reading", "fetching", "ended"}
    /\ Len(rs.out) <= rs.n + 1
    /\ rs.out = SubSeq(ExpectedLines(rs.n), 1, Len(rs.out))
    /\ rs.state = "ended"
          => /\ rs.out = ExpectedLines(rs.n)
             /\ rs.fetches * PageSize >= rs.n
             /\ (rs.fetches - 1) * PageSize < (IF rs.n = 0 THEN 1 ELSE rs.n)

C7_Witness ==
    /\ rs.state = "ended"
    /\ rs.n = 25 /\ PageSize = 10
    /\ ObjHas(rs.opts, "start")
    /\ Len(rs.out) = 26
    /\ rs.fetches = 3

====
